---- MODULE Spec2Model ----
(***************************************************************************)
(* Model of src/GPIOlcd.py: class lcd16x2, a driver for a 16x2 HD44780     *)
(* character LCD in 8-bit parallel mode.                                   *)
(*                                                                         *)
(* The object's fields are the variables _display, _cursor, _blink and     *)
(* _CURSORPOS.  Every public method is one action.  Two observation        *)
(* variables record what a caller (or a logic analyser on the bus) sees    *)
(* of one call: `sent`, the bytes _sendBinary latched during the call, and *)
(* `call`, the method, its argument, the object's fields when it was       *)
(* called and the exception it raised.                                     *)
(*                                                                         *)
(* A str is a sequence of code points, a byte pattern ("01000001") is a    *)
(* sequence of the digits 0 and 1.  Python values that a method type-checks*)
(* carry their type: [type |-> "str", val |-> <<72, 105>>].                *)
(*                                                                         *)
(* Further variables: `hist` is the history of the bus since construction  *)
(* (what the controller holds), `ret` the value a call returned, `loop`    *)
(* the position of a for-loop that is taken one iteration at a time,       *)
(* `wiring` the fields _RS, _E and _pins, `gpio` the I/O backend (the      *)
(* RPi.GPIO calls of the current call and the level of every line).        *)
(* `hist` is kept under Spec and SpecAppend, `gpio` under SpecPins.        *)
(*                                                                         *)
(* Spec takes every public method as one step and watches the bus byte by  *)
(* byte.  SpecEncode applies _textToBinary alone, SpecPins runs __init__   *)
(* and _sendBinary and watches the lines, SpecAppend takes the loop of     *)
(* append one iteration at a time.                                         *)
(***************************************************************************)
EXTENDS Integers, Sequences, FiniteSets, TLC

VARIABLES _display, _cursor, _blink, _CURSORPOS, sent, call, pc,
          hist, ret, loop, wiring, gpio

vars == <<_display, _cursor, _blink, _CURSORPOS, sent, call, pc,
          hist, ret, loop, wiring, gpio>>

-----------------------------------------------------------------------------
(* Bounds of the model *)

\* the longest text handed to setText / append (33 = one more than setText accepts)
MaxTextLen == 33

\* the longest text handed to _textToBinary alone
MaxEncodeLen == 16

-----------------------------------------------------------------------------
(* Pre-defined commands, src/GPIOlcd.py:36-39 *)

_CLEAR == <<0, 0, 0, 0, 0, 0, 0, 1>>

_HOME == <<0, 0, 0, 0, 0, 0, 1, 0>>

_SETENTRY == <<0, 0, 0, 0, 0, 1, 1, 0>>

_SETFUNC == <<0, 0, 1, 1, 1, 0, 0, 0>>

\* the literal "00000000" of setText and append
NULLBYTE == <<0, 0, 0, 0, 0, 0, 0, 0>>

-----------------------------------------------------------------------------
(* Exceptions: every one is a ValueError, told apart by its message *)

NoExc == "none"

ExcAscii == "ValueError: Text to convert must only contain ASCII characters"

ExcByteLen == "ValueError: First parameter must have a string length equal to 8"

ExcTooLong32 == "ValueError: Paramter 1 must not have length greater than 32"

ExcNotStr == "ValueError: Paramter 1 must be of type str"

ExcAppendTooLong == "ValueError: String is too long - total string must not excede 32 characters"

ExcNotBool == "ValueError: Paramter 1 must be of type bool"

-----------------------------------------------------------------------------
(* Python built-ins used by the driver *)

\* bin(n)[2:] : the binary digits of n, most significant first, no leading zero
RECURSIVE bin(_)
bin(n) == IF n < 2 THEN <<n>> ELSE bin(n \div 2) \o <<n % 2>>

\* "0" * p : p zeros, the empty string when p <= 0
Zeros(p) == [i \in 1..p |-> 0]

\* int(b) for a bool b
int(b) == IF b THEN 1 ELSE 0

\* text[:k]
Prefix(text, k) == SubSeq(text, 1, IF k < Len(text) THEN k ELSE Len(text))

\* text[k:]
Suffix(text, k) == SubSeq(text, k + 1, Len(text))

-----------------------------------------------------------------------------
(* _textToBinary, src/GPIOlcd.py:61-78 *)

\* mutant of byte: the zeros are put after the digits
byte_PadsRight(c) ==
    LET raw == bin(c)
    IN  IF Len(raw) # 8 THEN raw \o Zeros(8 - Len(raw)) ELSE raw

\* lines 67-72: one character to its 8-digit pattern
byte(c) ==
    LET raw == bin(c)
    IN  IF Len(raw) # 8 THEN Zeros(8 - Len(raw)) \o raw ELSE raw

\* mutant of IsAscii: every 8-bit code point passes
IsAscii_Latin1(text) == \A i \in 1..Len(text) : text[i] < 256

\* line 63: all(ord(c) < 128 for c in text)
IsAscii(text) == \A i \in 1..Len(text) : text[i] < 128

\* returns [exc, binary]; binary is the list returned, empty when it raises
_textToBinary(text) ==
    IF IsAscii(text)
    THEN [exc |-> NoExc, binary |-> [i \in 1..Len(text) |-> byte(text[i])]]
    ELSE [exc |-> ExcAscii, binary |-> <<>>]

-----------------------------------------------------------------------------
(* The object while a method runs: its fields, the bytes latched so far    *)
(* (`bus`) and the pending exception (`exc`).                              *)

\* _sendBinary, src/GPIOlcd.py:95-118.  A latched byte is recorded with the
\* register-select level and the value of _CURSORPOS when it was sent.
_sendBinary(self, b, isData) ==
    IF self.exc # NoExc THEN self
    ELSE IF Len(b) = 8
         THEN [self EXCEPT !.bus = Append(@, [b |-> b, isData |-> isData,
                                              at |-> self._CURSORPOS])]
         ELSE [self EXCEPT !.exc = ExcByteLen]

\* mutant of DisplayControl: the cursor and blink bits change places
DisplayControl_BlinkBeforeCursor(d, c, b) ==
    <<0, 0, 0, 0, 1>> \o <<int(d), int(b), int(c)>>

\* src/GPIOlcd.py:131: the pattern "00001" + D + C + B
DisplayControl(d, c, b) == <<0, 0, 0, 0, 1>> \o <<int(d), int(c), int(b)>>

\* _updateDisplay, src/GPIOlcd.py:130-131
_updateDisplay(self) ==
    _sendBinary(self, DisplayControl(self._display, self._cursor, self._blink), FALSE)

\* mutant of clear: the cursor position is not reset
clear_KeepsCursor(self) ==
    LET s1 == _sendBinary(self, _CLEAR, FALSE)
        s2 == _sendBinary(s1, _SETFUNC, FALSE)
        s3 == _updateDisplay(s2)
        s4 == _sendBinary(s3, _SETENTRY, FALSE)
    IN  _sendBinary(s4, _HOME, FALSE)

\* mutant of clear: return home is sent before the entry mode
clear_HomeBeforeEntry(self) ==
    LET s0 == [self EXCEPT !._CURSORPOS = 0]
        s1 == _sendBinary(s0, _CLEAR, FALSE)
        s2 == _sendBinary(s1, _SETFUNC, FALSE)
        s3 == _updateDisplay(s2)
        s4 == _sendBinary(s3, _HOME, FALSE)
    IN  _sendBinary(s4, _SETENTRY, FALSE)

\* clear, src/GPIOlcd.py:142-148
clear(self) ==
    LET s0 == [self EXCEPT !._CURSORPOS = 0]
        s1 == _sendBinary(s0, _CLEAR, FALSE)
        s2 == _sendBinary(s1, _SETFUNC, FALSE)
        s3 == _updateDisplay(s2)
        s4 == _sendBinary(s3, _SETENTRY, FALSE)
    IN  _sendBinary(s4, _HOME, FALSE)

\* the loop "for byte in binary: _sendBinary(byte, True); _CURSORPOS += 1"
\* of src/GPIOlcd.py:239-241, 251-253 and 259-261, from element i on
RECURSIVE SendBytes(_, _, _)
SendBytes(self, binary, i) ==
    IF i > Len(binary) \/ self.exc # NoExc THEN self
    ELSE LET s1 == _sendBinary(self, binary[i], TRUE)
         IN  SendBytes([s1 EXCEPT !._CURSORPOS = @ + 1], binary, i + 1)

\* the loop "for _ in range(24): _sendBinary("00000000", True); _CURSORPOS += 1"
\* of src/GPIOlcd.py:244-246, 255-257 and 286-288, with k rounds left
RECURSIVE SendNulls(_, _)
SendNulls(self, k) ==
    IF k = 0 \/ self.exc # NoExc THEN self
    ELSE LET s1 == _sendBinary(self, NULLBYTE, TRUE)
         IN  SendNulls([s1 EXCEPT !._CURSORPOS = @ + 1], k - 1)

\* raise: the method ends with exception e
Raise(self, e) == [self EXCEPT !.exc = e]

\* mutant of OneLinePads: the test is one more position off
OneLinePads_At14(self) == self._CURSORPOS = 14

\* src/GPIOlcd.py:243: the test that guards the padding of a one-line text
OneLinePads(self) == self._CURSORPOS = 15

\* setText, the one-line branch, src/GPIOlcd.py:237-246
SetTextOneLine(self, s) ==
    LET s1 == clear(self)
        enc == _textToBinary(s)
    IN  IF enc.exc # NoExc THEN Raise(s1, enc.exc)
        ELSE LET s2 == SendBytes(s1, enc.binary, 1)
             IN  IF OneLinePads(s2) THEN SendNulls(s2, 24) ELSE s2

\* mutant of SetTextTwoLines: the second row starts at text[17:]
SetTextTwoLines_DropsChar17(self, s) ==
    LET s1   == clear(self)
        enc1 == _textToBinary(Prefix(s, 16))
    IN  IF enc1.exc # NoExc THEN Raise(s1, enc1.exc)
        ELSE LET s2   == SendBytes(s1, enc1.binary, 1)
                 s3   == SendNulls(s2, 24)
                 enc2 == _textToBinary(Suffix(s, 17))
             IN  IF enc2.exc # NoExc THEN Raise(s3, enc2.exc)
                 ELSE SendBytes(s3, enc2.binary, 1)

\* setText, the two-line branch, src/GPIOlcd.py:249-261
SetTextTwoLines(self, s) ==
    LET s1   == clear(self)
        enc1 == _textToBinary(Prefix(s, 16))
    IN  IF enc1.exc # NoExc THEN Raise(s1, enc1.exc)
        ELSE LET s2   == SendBytes(s1, enc1.binary, 1)
                 s3   == SendNulls(s2, 24)
                 enc2 == _textToBinary(Suffix(s, 16))
             IN  IF enc2.exc # NoExc THEN Raise(s3, enc2.exc)
                 ELSE SendBytes(s3, enc2.binary, 1)

\* mutant of setText: the length test is off by one
setText_Accepts33(self, text) ==
    IF text.type = "str"
    THEN IF Len(text.val) <= 33
         THEN IF Len(text.val) <= 16
              THEN SetTextOneLine(self, text.val)
              ELSE SetTextTwoLines(self, text.val)
         ELSE Raise(self, ExcTooLong32)
    ELSE Raise(self, ExcNotStr)

\* setText, src/GPIOlcd.py:233-265
setText(self, text) ==
    IF text.type = "str"
    THEN IF Len(text.val) <= 32
         THEN IF Len(text.val) <= 16
              THEN SetTextOneLine(self, text.val)
              ELSE SetTextTwoLines(self, text.val)
         ELSE Raise(self, ExcTooLong32)
    ELSE Raise(self, ExcNotStr)

\* mutant of AppendFits: the second row may run one cell over
AppendFits_Upto57(pos, s) ==
    /\ s # <<>>
    /\ \/ (pos <= 16 /\ pos + 24 + Len(s) <= 57)
       \/ (pos >= 39 /\ pos + Len(s) <= 57)

\* mutant of AppendFits: the second row is taken to start at 40
AppendFits_From40(pos, s) ==
    /\ s # <<>>
    /\ \/ (pos <= 16 /\ pos + 24 + Len(s) <= 56)
       \/ (pos >= 40 /\ pos + Len(s) <= 56)

\* src/GPIOlcd.py:283: the capacity test of append
AppendFits(pos, s) ==
    /\ s # <<>>
    /\ \/ (pos <= 16 /\ pos + 24 + Len(s) <= 56)
       \/ (pos >= 39 /\ pos + Len(s) <= 56)

\* mutant of AppendStep: the second test is the else of the first
AppendStep_Else(self, b) ==
    IF self._CURSORPOS = 16
    THEN SendNulls(self, 24)
    ELSE LET s3 == _sendBinary(self, b, TRUE)
         IN  [s3 EXCEPT !._CURSORPOS = @ + 1]

\* one iteration of the loop of append, src/GPIOlcd.py:285-292, for byte b
AppendStep(self, b) ==
    LET s1 == IF self._CURSORPOS = 16 THEN SendNulls(self, 24) ELSE self
    IN  IF s1._CURSORPOS # 16
        THEN LET s3 == _sendBinary(s1, b, TRUE)
             IN  [s3 EXCEPT !._CURSORPOS = @ + 1]
        ELSE s1

\* the loop of append, src/GPIOlcd.py:284-292, from element i on
RECURSIVE AppendLoop(_, _, _)
AppendLoop(self, binary, i) ==
    IF i > Len(binary) \/ self.exc # NoExc THEN self
    ELSE AppendLoop(AppendStep(self, binary[i]), binary, i + 1)

\* append, src/GPIOlcd.py:280-297.  The test of line 282 has no else branch:
\* the empty string falls through and the method returns None.
append(self, text) ==
    IF text.type = "str"
    THEN IF text.val # <<>>
         THEN IF AppendFits(self._CURSORPOS, text.val)
              THEN LET enc == _textToBinary(text.val)
                   IN  IF enc.exc # NoExc THEN Raise(self, enc.exc)
                       ELSE AppendLoop(self, enc.binary, 1)
              ELSE Raise(self, ExcAppendTooLong)
         ELSE self
    ELSE Raise(self, ExcNotStr)

\* setDisplay, src/GPIOlcd.py:313-318
setDisplay(self, value) ==
    IF value.type = "bool"
    THEN _updateDisplay([self EXCEPT !._display = value.val])
    ELSE Raise(self, ExcNotBool)

\* mutant of setCursor: the flag is stored and the instruction is not re-sent
setCursor_NotResent(self, value) ==
    IF value.type = "bool"
    THEN [self EXCEPT !._cursor = value.val]
    ELSE Raise(self, ExcNotBool)

\* setCursor, src/GPIOlcd.py:334-339
setCursor(self, value) ==
    IF value.type = "bool"
    THEN _updateDisplay([self EXCEPT !._cursor = value.val])
    ELSE Raise(self, ExcNotBool)

\* setBlink, src/GPIOlcd.py:355-360
setBlink(self, value) ==
    IF value.type = "bool"
    THEN _updateDisplay([self EXCEPT !._blink = value.val])
    ELSE Raise(self, ExcNotBool)

PyBool(v) == [type |-> "bool", val |-> v]

\* src/GPIOlcd.py:375-456: the fixed-argument wrappers
displayOn(self) == setDisplay(self, PyBool(TRUE))

displayOff(self) == setDisplay(self, PyBool(FALSE))

cursorOn(self) == setCursor(self, PyBool(TRUE))

cursorOff(self) == setCursor(self, PyBool(FALSE))

blinkOn(self) == setBlink(self, PyBool(TRUE))

blinkOff(self) == setBlink(self, PyBool(FALSE))

-----------------------------------------------------------------------------
(* Arguments the caller may pass *)

\* the i-th character of a test text: printable ASCII and DEL, never NUL
Char(i) == 32 + ((37 * i) % 96)

\* a code point outside 7-bit ASCII for index i: the first one (128), a
\* Latin-1 letter (233), or one whose binary form has more than 8 digits (8364)
BadChar(i) == IF i % 3 = 1 THEN 128 ELSE IF i % 3 = 2 THEN 233 ELSE 8364

\* the text of n characters whose character at index bad (1-based, 0 = none)
\* is not ASCII
Text(n, bad) == [i \in 1..n |-> IF i = bad THEN BadChar(i) ELSE Char(i)]

\* where a text of n characters gets its non-ASCII character: first, last,
\* and on either side of the split text[:16] / text[16:]
BadIndex(n) == {1, 16, 17, n} \cap (1..n)

PyStr(s) == [type |-> "str", val |-> s]

\* a value that is neither a str nor a bool
PyNone(v) == [type |-> "NoneType", val |-> v]

AsciiTexts == {Text(n, 0) : n \in 0..MaxTextLen}

BadTexts == UNION {{Text(n, bad) : bad \in BadIndex(n)} : n \in 1..MaxTextLen}

TextArgs == {PyStr(s) : s \in AsciiTexts \cup BadTexts} \cup {PyNone(<<>>)}

BoolArgs == {PyBool(v) : v \in BOOLEAN} \cup {PyNone(FALSE)}

NoArg == PyNone(<<>>)

-----------------------------------------------------------------------------
(* The history of the bus *)

\* nothing sent yet
NoHistory == [data |-> 0, text |-> 0, dc |-> <<>>, dcAfterClear |-> FALSE]

\* e is the clear-display instruction
IsClearDisplay(e) == ~e.isData /\ e.b = _CLEAR

\* e is a display-control instruction (00001...)
IsDisplayControl(e) == ~e.isData /\ SubSeq(e.b, 1, 5) = <<0, 0, 0, 0, 1>>

\* the largest element of a set of naturals, 0 for the empty set
Last(S) == IF S = {} THEN 0 ELSE CHOOSE i \in S : \A j \in S : j <= i

\* the history h after the bytes of bus were latched: `data` counts the
\* character-data bytes and `text` those of them that are not null padding
\* since the last clear-display instruction, `dc` is the last
\* display-control instruction, `dcAfterClear` whether it came after the
\* last clear-display
Observe(h, bus) ==
    LET lastClear == Last({i \in 1..Len(bus) : IsClearDisplay(bus[i])})
        lastDC    == Last({i \in 1..Len(bus) : IsDisplayControl(bus[i])})
        since     == {i \in (lastClear + 1)..Len(bus) : bus[i].isData}
    IN  [data |-> (IF lastClear = 0 THEN h.data ELSE 0) + Cardinality(since),
         text |-> (IF lastClear = 0 THEN h.text ELSE 0)
                     + Cardinality({i \in since : bus[i].b # NULLBYTE}),
         dc   |-> IF lastDC = 0 THEN h.dc ELSE bus[lastDC].b,
         dcAfterClear |-> IF lastDC = 0 /\ lastClear = 0 THEN h.dcAfterClear
                          ELSE lastDC > lastClear]

\* the wiring of the examples: BCM pins of RS, E and D0..D7
DefaultWiring == [_RS |-> 26, _E |-> 19, _pins |-> <<13, 6, 5, 11, 9, 10, 22, 27>>]

\* no value returned (None)
NoRet == <<>>

\* no loop is running
NoLoop == [binary |-> <<>>, i |-> 0, from |-> 0, at |-> 0]

\* the backend before any call
NoGpio == [events |-> <<>>, level |-> << >>]

-----------------------------------------------------------------------------
(* The state machine *)

\* the object as a method finds it
Self == [_display |-> _display, _cursor |-> _cursor, _blink |-> _blink,
         _CURSORPOS |-> _CURSORPOS, bus |-> <<>>, exc |-> NoExc]

\* the fields of the object, as `call.pre` keeps them
Fields(o) == [_display |-> o._display, _cursor |-> o._cursor, _blink |-> o._blink,
              _CURSORPOS |-> o._CURSORPOS]

\* the caller runs method op with argument arg; r is the object when it ends
Invoke(op, arg, r) ==
    /\ pc = "ready"
    /\ pc' = "called"
    /\ _display' = r._display
    /\ _cursor' = r._cursor
    /\ _blink' = r._blink
    /\ _CURSORPOS' = r._CURSORPOS
    /\ sent' = r.bus
    /\ call' = [op |-> op, arg |-> arg, pre |-> Fields(Self), exc |-> r.exc,
                was |-> hist]
    /\ hist' = Observe(hist, r.bus)
    /\ UNCHANGED <<ret, loop, wiring, gpio>>

\* __init__ with valid arguments, src/GPIOlcd.py:163-194: the defaults of
\* lines 176-178, _CURSORPOS of line 45, then clear()
Constructed ==
    clear([_display |-> TRUE, _cursor |-> FALSE, _blink |-> FALSE,
           _CURSORPOS |-> 0, bus |-> <<>>, exc |-> NoExc])

Init ==
    /\ pc = "called"
    /\ _display = Constructed._display
    /\ _cursor = Constructed._cursor
    /\ _blink = Constructed._blink
    /\ _CURSORPOS = Constructed._CURSORPOS
    /\ sent = Constructed.bus
    /\ call = [op |-> "__init__", arg |-> NoArg,
               pre |-> [_display |-> TRUE, _cursor |-> FALSE, _blink |-> FALSE,
                        _CURSORPOS |-> 0],
               exc |-> Constructed.exc, was |-> NoHistory]
    /\ hist = Observe(NoHistory, Constructed.bus)
    /\ ret = NoRet
    /\ loop = NoLoop
    /\ wiring = DefaultWiring
    /\ gpio = NoGpio

\* the call is over: the caller has the result and is ready for its next call
Return ==
    /\ pc = "called"
    /\ pc' = "ready"
    /\ sent' = <<>>
    /\ call' = [op |-> "-", arg |-> NoArg, pre |-> Fields(Self), exc |-> NoExc,
                was |-> hist]
    /\ ret' = NoRet
    /\ gpio' = [gpio EXCEPT !.events = <<>>]
    /\ UNCHANGED <<_display, _cursor, _blink, _CURSORPOS, hist, loop, wiring>>

CallClear == Invoke("clear", NoArg, clear(Self))

CallSetText == \E text \in TextArgs : Invoke("setText", text, setText(Self, text))

CallAppend == \E text \in TextArgs : Invoke("append", text, append(Self, text))

CallSetDisplay == \E value \in BoolArgs : Invoke("setDisplay", value, setDisplay(Self, value))

CallSetCursor == \E value \in BoolArgs : Invoke("setCursor", value, setCursor(Self, value))

CallSetBlink == \E value \in BoolArgs : Invoke("setBlink", value, setBlink(Self, value))

CallDisplayOn == Invoke("displayOn", NoArg, displayOn(Self))

CallDisplayOff == Invoke("displayOff", NoArg, displayOff(Self))

CallCursorOn == Invoke("cursorOn", NoArg, cursorOn(Self))

CallCursorOff == Invoke("cursorOff", NoArg, cursorOff(Self))

CallBlinkOn == Invoke("blinkOn", NoArg, blinkOn(Self))

CallBlinkOff == Invoke("blinkOff", NoArg, blinkOff(Self))

Next ==
    \/ Return
    \/ CallClear
    \/ CallSetText
    \/ CallAppend
    \/ CallSetDisplay
    \/ CallSetCursor
    \/ CallSetBlink
    \/ CallDisplayOn
    \/ CallDisplayOff
    \/ CallCursorOn
    \/ CallCursorOff
    \/ CallBlinkOn
    \/ CallBlinkOff

Spec == Init /\ [][Next]_vars

-----------------------------------------------------------------------------
(* SpecAppend: append with its loop taken one iteration at a time *)

\* append up to its loop, src/GPIOlcd.py:281-284 and 294-297: the call ends
\* here when it raises or when the text is empty (pc "called"), else the
\* loop over the encoded text begins
AppendEnter ==
    \E text \in TextArgs :
        LET enters == /\ text.type = "str"
                      /\ text.val # <<>>
                      /\ AppendFits(_CURSORPOS, text.val)
                      /\ _textToBinary(text.val).exc = NoExc
        IN  IF enters
            THEN /\ pc = "ready"
                 /\ pc' = "append_loop"
                 /\ loop' = [binary |-> _textToBinary(text.val).binary, i |-> 1,
                             from |-> 0, at |-> _CURSORPOS]
                 /\ sent' = <<>>
                 /\ call' = [op |-> "append", arg |-> text, pre |-> Fields(Self),
                             exc |-> NoExc, was |-> hist]
                 /\ UNCHANGED <<_display, _cursor, _blink, _CURSORPOS, hist, ret,
                                wiring, gpio>>
            ELSE Invoke("append", text, append(Self, text))

\* one iteration of the loop, src/GPIOlcd.py:285-292; `loop.from` and
\* `loop.at` keep the length of the bus log and the cursor position the
\* iteration found
AppendIteration ==
    /\ pc = "append_loop"
    /\ loop.i <= Len(loop.binary)
    /\ LET r == AppendStep(Self, loop.binary[loop.i])
       IN  /\ _CURSORPOS' = r._CURSORPOS
           /\ sent' = sent \o r.bus
           /\ hist' = Observe(hist, r.bus)
           /\ loop' = [loop EXCEPT !.i = @ + 1, !.from = Len(sent), !.at = _CURSORPOS]
    /\ UNCHANGED <<_display, _cursor, _blink, call, pc, ret, wiring, gpio>>

\* the loop is exhausted: append returns
AppendExit ==
    /\ pc = "append_loop"
    /\ loop.i > Len(loop.binary)
    /\ pc' = "called"
    /\ loop' = NoLoop
    /\ UNCHANGED <<_display, _cursor, _blink, _CURSORPOS, sent, call, hist, ret,
                   wiring, gpio>>

NextAppend ==
    \/ Return
    \/ CallSetText
    \/ AppendEnter
    \/ AppendIteration
    \/ AppendExit

SpecAppend == Init /\ [][NextAppend]_vars

-----------------------------------------------------------------------------
(* SpecEncode: _textToBinary applied alone *)

\* the ASCII text of n characters start, start + step, ... (modulo 128)
Ramp(n, start, step) == [i \in 1..n |-> (start + step * (i - 1)) % 128]

\* code points from 128 on: the first two, the ends of Latin-1, the first
\* of 9 binary digits, the euro sign, the last code point of Unicode
HighChars == {128, 129, 233, 255, 256, 8364, 1114111}

\* every ASCII code point occurs, at every index
EncodeAscii ==
    {Ramp(n, start, 1) : n \in 0..MaxEncodeLen, start \in 0..127}
        \cup {Ramp(MaxEncodeLen, start, 37) : start \in 0..127}

\* an ASCII text with one character from 128 on, at every index
EncodeBad ==
    UNION {{[Ramp(n, 65, 1) EXCEPT ![bad] = c] : bad \in 1..n, c \in HighChars}
              : n \in 1..MaxEncodeLen}

\* _textToBinary(text), src/GPIOlcd.py:61-78, called on the constructed object
Encode ==
    \E text \in EncodeAscii \cup EncodeBad :
        LET r == _textToBinary(text)
        IN  /\ pc = "ready"
            /\ pc' = "called"
            /\ call' = [op |-> "_textToBinary", arg |-> PyStr(text),
                        pre |-> Fields(Self), exc |-> r.exc, was |-> hist]
            /\ ret' = r.binary
            /\ sent' = <<>>
            /\ UNCHANGED <<_display, _cursor, _blink, _CURSORPOS, hist, loop,
                           wiring, gpio>>

NextEncode ==
    \/ Return
    \/ Encode

SpecEncode == Init /\ [][NextEncode]_vars

-----------------------------------------------------------------------------
(* SpecPins: __init__ and _sendBinary on the lines of the I/O backend *)

\* _DELAY, src/GPIOlcd.py:42, in microseconds
_DELAY == 100

\* the calls of RPi.GPIO and time; levels are 0 and 1 (False and True)
GpioSetmode == [f |-> "setmode", arg |-> <<>>]

GpioSetwarnings(v) == [f |-> "setwarnings", arg |-> <<v>>]

GpioSetup(pin) == [f |-> "setup", arg |-> <<pin>>]

GpioOutput(pin, v) == [f |-> "output", arg |-> <<pin, v>>]

Sleep(t) == [f |-> "sleep", arg |-> <<t>>]

\* mutant of PulseEvents: bit n goes to _pins[n]
PulseEvents_NotReversed(w, e) ==
    <<GpioOutput(w._RS, int(e.isData)), GpioOutput(w._E, 1), Sleep(_DELAY)>>
        \o [k \in 1..(2 * Len(w._pins)) |->
               IF k % 2 = 1
               THEN GpioOutput(w._pins[(k + 1) \div 2], e.b[(k + 1) \div 2])
               ELSE Sleep(_DELAY)]
        \o <<GpioOutput(w._E, 0), Sleep(_DELAY)>>

\* _sendBinary on the lines, src/GPIOlcd.py:100-111, for the latched byte e
\* and the wiring w: round n = 0..7 of the loop gives the events 2n+1, 2n+2
PulseEvents(w, e) ==
    <<GpioOutput(w._RS, int(e.isData)), GpioOutput(w._E, 1), Sleep(_DELAY)>>
        \o [k \in 1..(2 * Len(w._pins)) |->
               IF k % 2 = 1
               THEN GpioOutput(w._pins[8 - ((k - 1) \div 2)], e.b[(k + 1) \div 2])
               ELSE Sleep(_DELAY)]
        \o <<GpioOutput(w._E, 0), Sleep(_DELAY)>>

\* the events of all the bytes of bus, from byte i on
RECURSIVE BusEvents(_, _, _)
BusEvents(w, bus, i) ==
    IF i > Len(bus) THEN <<>> ELSE PulseEvents(w, bus[i]) \o BusEvents(w, bus, i + 1)

\* the levels of the lines after the events ev, from the levels lv
LevelAfter(lv, ev) ==
    LET outs(p) == {i \in 1..Len(ev) : ev[i].f = "output" /\ ev[i].arg[1] = p}
        written == {ev[i].arg[1] : i \in {j \in 1..Len(ev) : ev[j].f = "output"}}
    IN  [p \in (DOMAIN lv) \cup written |->
            IF outs(p) = {} THEN lv[p] ELSE ev[Last(outs(p))].arg[2]]

\* the backend g after a call that made the events ev
Backend(g, ev) == [events |-> ev, level |-> LevelAfter(g.level, ev)]

\* the messages of src/GPIOlcd.py:197-205, without their backquotes
ExcRSNotInt == "ValueError: First parameter must be of type int"

ExcENotInt == "ValueError: Second parameter must be of type int"

ExcPinsNotList == "ValueError: Third parameter must be of type list"

ExcPinsNotAllInt == "ValueError: Third parameter (list) must only contain int"

ExcPinsNot8 == "ValueError: Third parameter (list of int) must contain exactly 8 elements"

\* the values of a list of Python values
Vals(items) == [i \in 1..Len(items) |-> items[i].val]

\* mutant of SetupEvents: the control lines are not driven low
SetupEvents_ControlNotDriven(RS, E, pins) ==
    <<GpioSetmode, GpioSetwarnings(0)>>
        \o <<GpioSetup(RS), GpioSetup(E)>>
        \o [k \in 1..(2 * Len(pins)) |->
               IF k % 2 = 1 THEN GpioSetup(pins[(k + 1) \div 2])
               ELSE GpioOutput(pins[k \div 2], 0)]

\* src/GPIOlcd.py:181-192: BCM mode, no warnings, then every line is made
\* an output and driven low, RS and E first
SetupEvents(RS, E, pins) ==
    <<GpioSetmode, GpioSetwarnings(0)>>
        \o <<GpioSetup(RS), GpioOutput(RS, 0), GpioSetup(E), GpioOutput(E, 0)>>
        \o [k \in 1..(2 * Len(pins)) |->
               IF k % 2 = 1 THEN GpioSetup(pins[(k + 1) \div 2])
               ELSE GpioOutput(pins[k \div 2], 0)]

\* the object before lines 176-178 ran: the class attribute _CURSORPOS of
\* line 45 and no instance attribute
Unset == "unset"

Unbuilt == [_display |-> Unset, _cursor |-> Unset, _blink |-> Unset,
            _CURSORPOS |-> 0, bus |-> <<>>, exc |-> NoExc]

NoWiring == [_RS |-> Unset, _E |-> Unset, _pins |-> <<>>]

\* __init__, src/GPIOlcd.py:163-205: [obj, wiring, events]
__init__(RS, E, pins) ==
    LET fail(x) == [obj |-> Raise(Unbuilt, x), wiring |-> NoWiring, events |-> <<>>]
    IN  IF RS.type = "int"
        THEN IF E.type = "int"
             THEN IF pins.type = "list"
                  THEN IF \A i \in 1..Len(pins.val) : pins.val[i].type = "int"
                       THEN IF Len(pins.val) = 8
                            THEN LET w == [_RS |-> RS.val, _E |-> E.val,
                                           _pins |-> Vals(pins.val)]
                                     o == clear([Unbuilt EXCEPT !._display = TRUE,
                                                                !._cursor = FALSE,
                                                                !._blink = FALSE])
                                 IN  [obj |-> o, wiring |-> w,
                                      events |-> SetupEvents(w._RS, w._E, w._pins)
                                                    \o BusEvents(w, o.bus, 1)]
                            ELSE fail(ExcPinsNot8)
                       ELSE fail(ExcPinsNotAllInt)
                  ELSE fail(ExcPinsNotList)
             ELSE fail(ExcENotInt)
        ELSE fail(ExcRSNotInt)

PyInt(n) == [type |-> "int", val |-> n]

PyList(items) == [type |-> "list", val |-> items]

Ints(ns) == [i \in 1..Len(ns) |-> PyInt(ns[i])]

\* ten distinct lines, twice, and a wiring that names line 13 twice
Wirings ==
    { DefaultWiring,
      [_RS |-> 7, _E |-> 8, _pins |-> <<25, 24, 23, 18, 15, 14, 3, 2>>],
      [_RS |-> 26, _E |-> 19, _pins |-> <<13, 6, 5, 11, 9, 10, 22, 13>>] }

\* the arguments of __init__: the wirings, and one wiring with lists that
\* are too short, too long or empty, with an item that is not an int, and
\* with an RS, E or pins of the wrong type
CtorArgs ==
    {[RS |-> PyInt(w._RS), E |-> PyInt(w._E), pins |-> PyList(Ints(w._pins))] : w \in Wirings}
    \cup {[RS |-> PyInt(26), E |-> PyInt(19), pins |-> PyList(Ints(SubSeq(<<13, 6, 5, 11, 9, 10, 22, 27, 17>>, 1, n)))]
             : n \in {0, 1, 7, 9}}
    \cup {[RS |-> PyInt(26), E |-> PyInt(19),
           pins |-> PyList([Ints(SubSeq(DefaultWiring._pins, 1, n)) EXCEPT ![k] = PyStr(<<49, 51>>)])]
             : n \in {7, 8}, k \in {1, 7}}
    \cup {[RS |-> PyInt(26), E |-> PyInt(19), pins |-> PyNone(<<>>)],
          [RS |-> PyInt(26), E |-> PyNone(<<>>), pins |-> PyList(Ints(DefaultWiring._pins))],
          [RS |-> PyNone(<<>>), E |-> PyInt(19), pins |-> PyList(Ints(DefaultWiring._pins))]}

\* every string of 8 binary digits
Patterns == [1..8 -> {0, 1}]

\* strings of binary digits of another length
BadPatterns == {<<>>, <<1, 0, 1, 0, 1, 0, 1>>, <<0, 1, 0, 1, 0, 1, 0, 1, 1>>}

InitPins ==
    /\ pc = "new"
    /\ _display = Unbuilt._display
    /\ _cursor = Unbuilt._cursor
    /\ _blink = Unbuilt._blink
    /\ _CURSORPOS = Unbuilt._CURSORPOS
    /\ sent = <<>>
    /\ call = [op |-> "-", arg |-> NoArg, pre |-> Fields(Unbuilt), exc |-> NoExc,
               was |-> NoHistory]
    /\ hist = NoHistory
    /\ ret = NoRet
    /\ loop = NoLoop
    /\ wiring = NoWiring
    /\ gpio = NoGpio

\* lcd16x2(RS, E, pins); no object exists after a failure (pc "failed")
Construct ==
    \E a \in CtorArgs :
        LET r == __init__(a.RS, a.E, a.pins)
        IN  /\ pc = "new"
            /\ pc' = IF r.obj.exc = NoExc THEN "called" ELSE "failed"
            /\ _display' = r.obj._display
            /\ _cursor' = r.obj._cursor
            /\ _blink' = r.obj._blink
            /\ _CURSORPOS' = r.obj._CURSORPOS
            /\ sent' = r.obj.bus
            /\ call' = [op |-> "__init__", arg |-> a, pre |-> Fields(Unbuilt),
                        exc |-> r.obj.exc, was |-> NoHistory]
            /\ wiring' = r.wiring
            /\ gpio' = Backend(gpio, r.events)
            /\ UNCHANGED <<hist, ret, loop>>

\* _sendBinary(b, isData) called on the constructed object
Transmit ==
    \E b \in Patterns \cup BadPatterns, isData \in BOOLEAN :
        LET r == _sendBinary(Self, b, isData)
        IN  /\ pc = "ready"
            /\ pc' = "called"
            /\ sent' = r.bus
            /\ call' = [op |-> "_sendBinary", arg |-> [type |-> "str", val |-> b, isData |-> isData],
                        pre |-> Fields(Self), exc |-> r.exc, was |-> hist]
            /\ gpio' = Backend(gpio, BusEvents(wiring, r.bus, 1))
            /\ UNCHANGED <<_display, _cursor, _blink, _CURSORPOS, hist, ret, loop, wiring>>

NextPins ==
    \/ Construct
    \/ Transmit
    \/ Return

SpecPins == InitPins /\ [][NextPins]_vars

-----------------------------------------------------------------------------
(* Vocabulary of the properties: what the bus should carry, written from   *)
(* the HD44780 instruction set and not through the driver's own encoder.   *)

TypeOK ==
    /\ _display \in BOOLEAN
    /\ _cursor \in BOOLEAN
    /\ _blink \in BOOLEAN
    /\ _CURSORPOS \in 0..56
    /\ pc \in {"ready", "called"}

\* the 8 binary digits of n, most significant first
Bits8(n) == [k \in 1..8 |-> (n \div (2 ^ (8 - k))) % 2]

Bit(v) == IF v THEN 1 ELSE 0

Instruction(b) == [b |-> b, isData |-> FALSE]

CharacterData(b) == [b |-> b, isData |-> TRUE]

\* the transmissions of the call, without the cursor annotation
Wire == [i \in 1..Len(sent) |-> [b |-> sent[i].b, isData |-> sent[i].isData]]

\* 00001DCB for the flags f
DisplayControlOf(f) ==
    Instruction(<<0, 0, 0, 0, 1, Bit(f._display), Bit(f._cursor), Bit(f._blink)>>)

\* clear display, function set, display control, entry mode, return home
ClearSequence(f) ==
    << Instruction(<<0, 0, 0, 0, 0, 0, 0, 1>>),
       Instruction(<<0, 0, 1, 1, 1, 0, 0, 0>>),
       DisplayControlOf(f),
       Instruction(<<0, 0, 0, 0, 0, 1, 1, 0>>),
       Instruction(<<0, 0, 0, 0, 0, 0, 1, 0>>) >>

\* the characters of s as character data
TextData(s) == [i \in 1..Len(s) |-> CharacterData(Bits8(s[i]))]

\* k null bytes as character data
Padding(k) == [i \in 1..k |-> CharacterData(<<0, 0, 0, 0, 0, 0, 0, 0>>)]

AllAscii(s) == \A i \in 1..Len(s) : s[i] \in 0..127

\* the call just made is method op
Called(op) == pc = "called" /\ call.op = op

\* ... with a str argument of 7-bit ASCII characters
CalledWithAscii(op) ==
    /\ Called(op)
    /\ call.arg.type = "str"
    /\ AllAscii(call.arg.val)

Now == [_display |-> _display, _cursor |-> _cursor, _blink |-> _blink,
        _CURSORPOS |-> _CURSORPOS]

Flags(f) == <<f._display, f._cursor, f._blink>>

\* the spec's error taxonomy over the driver's ValueErrors
ValidationError == {ExcTooLong32, ExcAppendTooLong, ExcNotStr, ExcNotBool}

EncodingError == {ExcAscii}

\* the call failed and nothing happened: no byte sent, no field changed
NothingHappened == sent = <<>> /\ Now = call.pre

-----------------------------------------------------------------------------
(* C1..C10 *)

\* C1 (as claimed; the code contradicts it): setText of exactly 16 ASCII
\* characters sends the clear sequence, the 16 characters, then 24 null
\* bytes, and leaves the cursor position at 40.
C1_SetText16PadsTo40 ==
    (CalledWithAscii("setText") /\ Len(call.arg.val) = 16)
        => /\ call.exc = NoExc
           /\ Wire = ClearSequence(call.pre) \o TextData(call.arg.val) \o Padding(24)
           /\ _CURSORPOS = 40

\* C2 (as claimed; the code contradicts it): setText of fewer than 16 ASCII
\* characters sends the clear sequence and the characters and no null
\* padding; the cursor position ends at the length of the text.
C2_ShortSetTextUnpadded ==
    (CalledWithAscii("setText") /\ Len(call.arg.val) < 16)
        => /\ call.exc = NoExc
           /\ Wire = ClearSequence(call.pre) \o TextData(call.arg.val)
           /\ _CURSORPOS = Len(call.arg.val)

\* C3: setText of 17..32 ASCII characters sends the clear sequence, the first
\* 16 characters, exactly 24 null bytes and then the remaining characters,
\* all as character data in that order; the cursor position ends at the
\* length of the text plus 24.
C3_TwoLineSetText ==
    (CalledWithAscii("setText") /\ Len(call.arg.val) \in 17..32)
        => /\ call.exc = NoExc
           /\ Wire = ClearSequence(call.pre)
                       \o TextData(SubSeq(call.arg.val, 1, 16))
                       \o Padding(24)
                       \o TextData(SubSeq(call.arg.val, 17, Len(call.arg.val)))
           /\ _CURSORPOS = Len(call.arg.val) + 24

\* C3 witness: an 18-character setText on a display whose cursor had moved
\* has ended with the cursor position at 42.
C3_Witness ==
    /\ CalledWithAscii("setText")
    /\ Len(call.arg.val) = 18
    /\ call.pre._CURSORPOS > 0
    /\ _CURSORPOS = 42
    /\ Len(sent) = 5 + 16 + 24 + 2

\* C4 (as claimed; the code contradicts it): in successful operations every
\* text character is transmitted while the cursor position is in 0..15 or
\* 40..55, and every null padding byte while it is in 16..39.
C4_HiddenRegionSkippedExactly ==
    (pc = "called" /\ call.exc = NoExc)
        => \A i \in 1..Len(sent) :
              sent[i].isData
                 => IF sent[i].b = <<0, 0, 0, 0, 0, 0, 0, 0>>
                    THEN sent[i].at \in 16..39
                    ELSE sent[i].at \in (0..15) \cup (40..55)

\* C5: append of a non-empty ASCII text at cursor position c is accepted
\* if and only if (c <= 16 and c + 24 + len <= 56) or (c >= 39 and
\* c + len <= 56); otherwise it fails with ValidationError, sends nothing
\* and leaves the cursor position unchanged.
C5_AppendCapacityRule ==
    (CalledWithAscii("append") /\ call.arg.val # <<>>)
        => LET c == call.pre._CURSORPOS
               n == Len(call.arg.val)
           IN  IF (c <= 16 /\ c + 24 + n <= 56) \/ (c >= 39 /\ c + n <= 56)
               THEN call.exc = NoExc /\ Len(sent) >= n
               ELSE call.exc \in ValidationError /\ NothingHappened

\* C5 witness: append of 4 characters at cursor position 50 was accepted.
C5_Witness ==
    /\ CalledWithAscii("append")
    /\ Len(call.arg.val) = 4
    /\ call.pre._CURSORPOS = 50
    /\ call.exc = NoExc
    /\ _CURSORPOS = 54

\* C6 (as claimed; the code contradicts it): append of the empty string fails
\* with ValidationError, sends nothing and changes nothing.
C6_AppendEmptyFails ==
    (Called("append") /\ call.arg.type = "str" /\ call.arg.val = <<>>)
        => call.exc \in ValidationError /\ NothingHappened

\* C7 (as claimed; the code contradicts it): a setText or append that fails
\* with EncodingError has sent nothing and left the cursor position and the
\* mode flags as they were.
C7_EncodingErrorBeforeAnyTransmission ==
    ((Called("setText") \/ Called("append")) /\ call.exc \in EncodingError)
        => NothingHappened

\* C8: setText of more than 32 characters fails with ValidationError, sends
\* nothing (not even the clear sequence) and leaves the cursor position and
\* the mode flags unchanged.
C8_SetTextOver32Rejected ==
    (Called("setText") /\ call.arg.type = "str" /\ Len(call.arg.val) > 32)
        => call.exc \in ValidationError /\ NothingHappened

\* C8 witness: a 33-character setText was rejected on a display whose cursor
\* stands past the first row and whose cursor flag is on.
C8_Witness ==
    /\ Called("setText")
    /\ call.arg.type = "str"
    /\ Len(call.arg.val) = 33
    /\ call.exc = ExcTooLong32
    /\ _CURSORPOS > 40
    /\ _cursor

\* C9: clear sets the cursor position to 0 and sends exactly five
\* instructions, in this order: 00000001, 00111000, 00001DCB for the current
\* flags, 00000110, 00000010; the mode flags stay as they were.
C9_ClearSequence ==
    Called("clear")
        => /\ call.exc = NoExc
           /\ _CURSORPOS = 0
           /\ Wire = ClearSequence(call.pre)
           /\ Len(sent) = 5
           /\ Flags(Now) = Flags(call.pre)

\* C9 witness: clear ran with the cursor past the first row, the display
\* off and the blink flag on.
C9_Witness ==
    /\ Called("clear")
    /\ call.pre._CURSORPOS > 16
    /\ ~_display
    /\ _blink
    /\ Len(sent) = 5

\* the flag a mode method sets and the value it sets it to
ModeCalls == {"setDisplay", "setCursor", "setBlink", "displayOn", "displayOff",
              "cursorOn", "cursorOff", "blinkOn", "blinkOff"}

\* a setter was called with a boolean, or a wrapper was called
ModeCalled ==
    /\ pc = "called"
    /\ call.op \in ModeCalls
    /\ call.op \in {"setDisplay", "setCursor", "setBlink"} => call.arg.type = "bool"

ModeValue ==
    IF call.op \in {"setDisplay", "setCursor", "setBlink"} THEN call.arg.val
    ELSE call.op \in {"displayOn", "cursorOn", "blinkOn"}

ModeExpected ==
    IF call.op \in {"setDisplay", "displayOn", "displayOff"}
    THEN [call.pre EXCEPT !._display = ModeValue]
    ELSE IF call.op \in {"setCursor", "cursorOn", "cursorOff"}
         THEN [call.pre EXCEPT !._cursor = ModeValue]
         ELSE [call.pre EXCEPT !._blink = ModeValue]

\* C10: setDisplay/setCursor/setBlink(v) and the six wrappers set only their
\* own flag to v and send exactly one instruction, 00001DCB with the flags after
\* the update, also when v is the current value; the cursor position and the
\* other two flags are unchanged.
C10_ModeSetters ==
    ModeCalled
        => /\ call.exc = NoExc
           /\ Now = ModeExpected
           /\ Wire = <<DisplayControlOf(Now)>>

\* C10 witness: setBlink(True) ran with the blink flag already on, the
\* cursor flag on and text on the display.
C10_Witness ==
    /\ Called("setBlink")
    /\ call.arg.type = "bool"
    /\ call.arg.val
    /\ call.pre._blink
    /\ _cursor
    /\ _CURSORPOS > 0
    /\ Len(sent) = 1

-----------------------------------------------------------------------------
(* C16..C20, under Spec *)

\* C16: an accepted append sends every character of the text exactly once,
\* in order, as character data, with one run of 24 null bytes before the
\* character that finds the cursor position at 16 and none otherwise; the
\* cursor position grows by the length of the text, plus 24 with the skip.
C16_AppendSendsTextOnce ==
    (CalledWithAscii("append") /\ call.arg.val # <<>> /\ call.exc = NoExc)
        => LET c    == call.pre._CURSORPOS
               t    == call.arg.val
               n    == Len(t)
               skip == c <= 16 /\ c + n > 16
           IN  /\ Wire = IF skip
                         THEN TextData(SubSeq(t, 1, 16 - c)) \o Padding(24)
                                 \o TextData(SubSeq(t, 16 - c + 1, n))
                         ELSE TextData(t)
               /\ _CURSORPOS = c + n + (IF skip THEN 24 ELSE 0)

\* C16 witness: an append of 10 characters at cursor position 10 crossed the
\* row boundary and ended at 44.
C16_Witness ==
    /\ CalledWithAscii("append")
    /\ call.exc = NoExc
    /\ call.pre._CURSORPOS = 10
    /\ Len(call.arg.val) = 10
    /\ _CURSORPOS = 44
    /\ Len(sent) = 34

\* the call sent the clear-display instruction
SentClear == \E i \in 1..Len(sent) : ~sent[i].isData /\ sent[i].b = <<0, 0, 0, 0, 0, 0, 0, 1>>

\* C17: between public operations, also after failed ones, the cursor
\* position is the number of character-data bytes sent since the last
\* clear-display instruction; the mode methods leave it alone, and it goes
\* back only in a call that sent the clear-display instruction, to 0.
C17_CursorCountsData ==
    /\ _CURSORPOS = hist.data
    /\ (pc = "called" /\ call.op \in ModeCalls) => _CURSORPOS = call.pre._CURSORPOS
    /\ (pc = "called" /\ call.op # "__init__" /\ ~SentClear)
          => _CURSORPOS >= call.pre._CURSORPOS
    /\ (pc = "called" /\ call.op = "clear") => _CURSORPOS = 0

\* C17 witness: a two-line setText failed on a non-ASCII character of its
\* second row, after 40 bytes of character data.
C17_Witness ==
    /\ Called("setText")
    /\ call.exc \in EncodingError
    /\ call.pre._CURSORPOS = 16
    /\ _CURSORPOS = 40
    /\ hist.data = 40

\* C18: append of a non-empty ASCII text is accepted if and only if the
\* number of text characters written since the last clear plus the length
\* of the text is at most 32; a successful setText(s) leaves len(s) text
\* characters; the text on the display never exceeds 32 characters.
C18_AppendUpTo32 ==
    /\ hist.text <= 32
    /\ (CalledWithAscii("setText") /\ call.exc = NoExc) => hist.text = Len(call.arg.val)
    /\ (CalledWithAscii("append") /\ call.arg.val # <<>>)
          => (call.exc = NoExc <=> call.was.text + Len(call.arg.val) <= 32)

\* C18 witness: after 15 characters (cursor position 39) an append of 17
\* characters was accepted and filled the display.
C18_Witness ==
    /\ CalledWithAscii("append")
    /\ call.was.text = 15
    /\ call.pre._CURSORPOS = 39
    /\ Len(call.arg.val) = 17
    /\ call.exc = NoExc
    /\ hist.text = 32

\* C19: the cursor position is always in 0..16 or 39..56, so no append is
\* rejected for starting in 17..38.
C19_CursorRange ==
    /\ _CURSORPOS \in (0..16) \cup (39..56)
    /\ call.pre._CURSORPOS \in (0..16) \cup (39..56)

\* C19 witness: an append was rejected at cursor position 56, after a failed
\* call.
C19_Witness ==
    /\ Called("append")
    /\ call.exc = ExcAppendTooLong
    /\ _CURSORPOS = 56

\* C20: the last display-control instruction sent encodes the current flags
\* and came after the last clear-display instruction; setText, append and
\* clear do not change the flags.
C20_ControllerHasFlags ==
    /\ hist.dc = <<0, 0, 0, 0, 1, Bit(_display), Bit(_cursor), Bit(_blink)>>
    /\ hist.dcAfterClear
    /\ (pc = "called" /\ call.op \in {"setText", "append", "clear"})
          => Flags(Now) = Flags(call.pre)

\* C20 witness: setCursor failed on a non-boolean with the display off and
\* the blink flag on.
C20_Witness ==
    /\ Called("setCursor")
    /\ call.exc = ExcNotBool
    /\ ~_display
    /\ _blink
    /\ _CURSORPOS > 0

-----------------------------------------------------------------------------
(* C15, under SpecAppend *)

\* an iteration of the loop of append has just run
IterationRan == pc = "append_loop" /\ loop.i > 1

\* the bytes that iteration sent
IterationWire == [k \in 1..(Len(sent) - loop.from) |-> Wire[loop.from + k]]

\* the character of that iteration
IterationChar == call.arg.val[loop.i - 1]

\* C15 (as claimed): an iteration that finds the cursor position at 16 and
\* sends the 24 null bytes sends no character in that same iteration.
C15_SkipExcludesCharacter ==
    (IterationRan /\ loop.at = 16) => IterationWire = Padding(24)

\* C15 (amended): every iteration sends its own character; an iteration that
\* finds the cursor position at 16 first sends the 24 null bytes and then,
\* in that same iteration, its character at position 40, so no character
\* waits for a later iteration.
C15_SkipThenCharacter ==
    IterationRan
        => /\ IterationWire = (IF loop.at = 16 THEN Padding(24) ELSE <<>>)
                                 \o <<CharacterData(Bits8(IterationChar))>>
           /\ _CURSORPOS = loop.at + Len(IterationWire)
           /\ sent[Len(sent)].at = (IF loop.at = 16 THEN 40 ELSE loop.at)

\* C15 witness: the second iteration of an append found the cursor position
\* at 16 and sent 25 bytes.
C15_Witness ==
    /\ IterationRan
    /\ loop.i = 3
    /\ loop.at = 16
    /\ Len(IterationWire) = 25
    /\ _CURSORPOS = 41

-----------------------------------------------------------------------------
(* C11, C12, under SpecEncode *)

\* the number whose binary digits, most significant first, are b[1..8]
BinaryValue(b) ==
    b[1] * 128 + b[2] * 64 + b[3] * 32 + b[4] * 16 + b[5] * 8 + b[6] * 4 + b[7] * 2 + b[8]

\* C11: for a text of 7-bit ASCII characters encode returns as many patterns
\* as the text has characters, each of exactly 8 binary digits, and the
\* i-th pattern read as a binary number, most significant digit first, is
\* the code point of the i-th character.
C11_EncodeRoundTrip ==
    CalledWithAscii("_textToBinary")
        => /\ call.exc = NoExc
           /\ Len(ret) = Len(call.arg.val)
           /\ \A i \in 1..Len(ret) :
                 /\ Len(ret[i]) = 8
                 /\ \A k \in 1..8 : ret[i][k] \in {0, 1}
                 /\ BinaryValue(ret[i]) = call.arg.val[i]

\* C11 witness: a text of 16 characters with DEL, NUL and SOH was encoded.
C11_Witness ==
    /\ CalledWithAscii("_textToBinary")
    /\ Len(call.arg.val) = 16
    /\ call.arg.val[1] = 127
    /\ call.arg.val[2] = 0
    /\ Len(ret) = 16
    /\ ret[3] = <<0, 0, 0, 0, 0, 0, 0, 1>>

\* C12: encode fails with EncodingError whenever a character of the text,
\* at any index, has a code point from 128 on, and returns nothing.
C12_EncodeRejectsNonAscii ==
    (Called("_textToBinary") /\ ~AllAscii(call.arg.val))
        => /\ call.exc \in EncodingError
           /\ ret = <<>>

\* C12 witness: a text of 16 characters failed on its last character, the
\* first code point outside ASCII.
C12_Witness ==
    /\ Called("_textToBinary")
    /\ Len(call.arg.val) = 16
    /\ call.arg.val[16] = 128
    /\ AllAscii(SubSeq(call.arg.val, 1, 15))
    /\ call.exc = ExcAscii

-----------------------------------------------------------------------------
(* C13, C14, under SpecPins *)

\* backend events, as the I/O backend sees them
ConfigureAsOutput(line) == [f |-> "setup", arg |-> <<line>>]

WriteLine(line, v) == [f |-> "output", arg |-> <<line, v>>]

Pause == [f |-> "sleep", arg |-> <<100>>]

\* dataLines[i], i = 0..7
DataLine(i) == wiring._pins[i + 1]

\* the ten lines are ten different lines
DistinctLines ==
    Cardinality({wiring._RS, wiring._E} \cup {DataLine(i) : i \in 0..7}) = 10

\* the arguments of construct are in contract
CtorArgsValid(a) ==
    /\ a.RS.type = "int"
    /\ a.E.type = "int"
    /\ a.pins.type = "list"
    /\ Len(a.pins.val) = 8
    /\ \A i \in 1..Len(a.pins.val) : a.pins.val[i].type = "int"

CtorValidationError ==
    {ExcRSNotInt, ExcENotInt, ExcPinsNotList, ExcPinsNotAllInt, ExcPinsNot8}

\* C13: construct with dataLines that are not exactly 8 integral ids (or
\* with another argument of the wrong type) fails with ValidationError
\* before any line is configured or written and before any transmission; a
\* successful construct configures and drives low all 10 lines, RS and E
\* first, then runs the clear sequence with the default flags (display
\* control 00001100) and ends with the cursor position at 0.
C13_Construct ==
    (call.op = "__init__")
        => IF CtorArgsValid(call.arg)
           THEN /\ call.exc = NoExc
                /\ pc = "called"
                /\ SubSeq(gpio.events, 3, 22) =
                      << ConfigureAsOutput(wiring._RS), WriteLine(wiring._RS, 0),
                         ConfigureAsOutput(wiring._E), WriteLine(wiring._E, 0),
                         ConfigureAsOutput(DataLine(0)), WriteLine(DataLine(0), 0),
                         ConfigureAsOutput(DataLine(1)), WriteLine(DataLine(1), 0),
                         ConfigureAsOutput(DataLine(2)), WriteLine(DataLine(2), 0),
                         ConfigureAsOutput(DataLine(3)), WriteLine(DataLine(3), 0),
                         ConfigureAsOutput(DataLine(4)), WriteLine(DataLine(4), 0),
                         ConfigureAsOutput(DataLine(5)), WriteLine(DataLine(5), 0),
                         ConfigureAsOutput(DataLine(6)), WriteLine(DataLine(6), 0),
                         ConfigureAsOutput(DataLine(7)), WriteLine(DataLine(7), 0) >>
                /\ \A k \in 1..2 : gpio.events[k].f \notin {"setup", "output", "sleep"}
                /\ Len(gpio.events) = 22 + 5 * 21
                /\ \A k \in 23..Len(gpio.events) : gpio.events[k].f \in {"output", "sleep"}
                /\ Wire = ClearSequence([_display |-> TRUE, _cursor |-> FALSE,
                                         _blink |-> FALSE])
                /\ Wire[3].b = <<0, 0, 0, 0, 1, 1, 0, 0>>
                /\ _display = TRUE /\ _cursor = FALSE /\ _blink = FALSE
                /\ _CURSORPOS = 0
           ELSE /\ call.exc \in CtorValidationError
                /\ pc = "failed"
                /\ gpio.events = <<>>
                /\ DOMAIN gpio.level = {}
                /\ sent = <<>>

\* C13 witness: construct failed on a list of 7 lines.
C13_Witness ==
    /\ call.op = "__init__"
    /\ pc = "failed"
    /\ call.arg.pins.type = "list"
    /\ Len(call.arg.pins.val) = 7
    /\ call.exc = ExcPinsNot8

\* bit i (0 = least significant) of the pattern b
BitOf(b, i) == (BinaryValue(b) \div (2 ^ i)) % 2

\* C14: every transmit writes register-select := isCharacterData, enable :=
\* high, pauses, writes dataLines[7-n] := the n-th digit of the pattern for
\* n = 0..7 with a pause after each, writes enable := low and pauses; so the
\* enable line is low after it, and with ten different lines dataLines[i]
\* carries bit i of the pattern.
C14_TransmitEventOrder ==
    /\ (Called("_sendBinary") /\ Len(call.arg.val) = 8)
          => LET b == call.arg.val
             IN  /\ call.exc = NoExc
                 /\ gpio.events =
                      << WriteLine(wiring._RS, Bit(call.arg.isData)),
                         WriteLine(wiring._E, 1), Pause,
                         WriteLine(DataLine(7), b[1]), Pause,
                         WriteLine(DataLine(6), b[2]), Pause,
                         WriteLine(DataLine(5), b[3]), Pause,
                         WriteLine(DataLine(4), b[4]), Pause,
                         WriteLine(DataLine(3), b[5]), Pause,
                         WriteLine(DataLine(2), b[6]), Pause,
                         WriteLine(DataLine(1), b[7]), Pause,
                         WriteLine(DataLine(0), b[8]), Pause,
                         WriteLine(wiring._E, 0), Pause >>
                 /\ DistinctLines
                       => /\ \A i \in 0..7 : gpio.level[DataLine(i)] = BitOf(b, i)
                          /\ gpio.level[wiring._RS] = Bit(call.arg.isData)
    /\ pc \in {"called", "ready"} => gpio.level[wiring._E] = 0

\* C14 witness: the letter A (01000001) was sent as character data over the
\* default wiring: D0 and D6 are high, D7 is low.
C14_Witness ==
    /\ Called("_sendBinary")
    /\ call.arg.val = <<0, 1, 0, 0, 0, 0, 0, 1>>
    /\ call.arg.isData
    /\ wiring = DefaultWiring
    /\ gpio.level[13] = 1
    /\ gpio.level[22] = 1
    /\ gpio.level[27] = 0
    /\ Len(gpio.events) = 21

====
